---- MODULE Spec2Model ----
(***************************************************************************)
(* Price pipeline of FastAPI_Retail: DiscountCalculator (app/discount.py), *)
(* TaxCalculator (app/tax.py) and PriceCalculator (app/price_calculator.py)*)
(*                                                                         *)
(* Number representation.  The program computes on Python floats.  The     *)
(* model computes on exact decimals:                                       *)
(*   - a rounded monetary amount is an integer number of cents;            *)
(*   - a raw input amount (unit_price, the amount given to calculate_tax)  *)
(*     is a record [c |-> cents, m |-> tenths of a cent], value c + m/10   *)
(*     cents, 0 <= m <= 9, so that three-decimal inputs such as 4.999 are  *)
(*     representable;                                                      *)
(*   - a tax rate is an integer number of hundredths of a percent;         *)
(*   - a discount percentage is an integer number of percent.              *)
(* round(x, 2) on a float rounds the binary value of x correctly; when the *)
(* exact decimal value lies exactly half-way between two cents the binary  *)
(* value lies on either side of it, so the model lets round return either  *)
(* neighbouring cent there (Round) and the unique nearest cent elsewhere.  *)
(* Products are split so that no intermediate value exceeds 2^31.          *)
(* A float operation is a function of its operands: `fp` keeps the way     *)
(* each exact half cent met so far was rounded, for the specification in   *)
(* which calls are repeated (SpecRepeat); `prev` is an earlier call and    *)
(* its outcome kept for comparison.  `invoked` lists the engine methods a   *)
(* calculate_final_price call has invoked.                                 *)
(***************************************************************************)
EXTENDS Integers, Sequences, FiniteSets, TLC

VARIABLES tax_rates, discount_rules, call, outcome, invoked, fp, prev

vars == <<tax_rates, discount_rules, call, outcome, invoked, fp, prev>>

(***************************************************************************)
(* Bounds of the explored inputs.                                          *)
(***************************************************************************)
\* inputs are taken within Spread of every limit the code compares against
Spread == 1

(***************************************************************************)
(* Decimal helpers.                                                        *)
(***************************************************************************)
\* the decimal c + m/10 cents
Dec(c, m) == [c |-> c, m |-> m]

\* x <= 0, x < 0 and x > limit (limit in cents) on a decimal
DecLeqZero(x) == x.c < 0 \/ (x.c = 0 /\ x.m = 0)
DecLtZero(x) == x.c < 0
DecGt(x, limit) == x.c > limit \/ (x.c = limit /\ x.m > 0)

\* round(n/d): the integers nearest to n/d (n >= 0, d > 0); both neighbours
\* at an exact tie, where the float's binary error decides
Round(n, d) ==
    LET f == n \div d
        r == n % d
    IN  IF 2 * r < d THEN {f}
        ELSE IF 2 * r > d THEN {f + 1}
        ELSE {f, f + 1}

\* round(a * n / d) for a >= 0, computed as (a div d) * n + round((a mod d) * n / d)
RoundMulDiv(a, n, d) == {(a \div d) * n + x : x \in Round((a % d) * n, d)}

(***************************************************************************)
(* app/exceptions.py                                                       *)
(***************************************************************************)
\* the classes each exception class derives from (itself included)
Bases(cls) ==
    CASE cls = "ValueError"             -> {"ValueError", "Exception"}
      [] cls = "TypeError"              -> {"TypeError", "Exception"}
      [] cls = "InvalidStateError"      -> {"InvalidStateError", "RetailException", "HTTPException", "Exception"}
      [] cls = "StateNotSupportedError" -> {"StateNotSupportedError", "RetailException", "HTTPException", "Exception"}
      [] cls = "CalculationError"       -> {"CalculationError", "RetailException", "HTTPException", "Exception"}
      [] OTHER                          -> {}

\* isinstance(e, cls) as the except clauses test it
isinstance(e, cls) == cls \in Bases(e.kind)

ValueError(message) == [kind |-> "ValueError", message |-> message]

\* a call of a constructor with the wrong number of positional arguments
TypeError == [kind |-> "TypeError", message |-> "takes 2 positional arguments but 3 were given"]

InvalidStateError(state, valid_states) ==
    [kind |-> "InvalidStateError", status_code |-> 400, error_code |-> "INVALID_STATE",
     message |-> "L'etat n'est pas valide",
     provided_state |-> state, valid_states |-> valid_states,
     suggestion |-> "Veuillez utiliser un des etats valides listes"]

\* StateNotSupportedError.__init__(self, state): args is the sequence of the
\* positional arguments of the call; any other arity is a TypeError
StateNotSupportedError(args) ==
    IF Len(args) = 1
    THEN [kind |-> "StateNotSupportedError", status_code |-> 400, error_code |-> "STATE_NOT_SUPPORTED",
          message |-> "L'etat n'est pas encore supporte pour les calculs de taxe",
          state |-> args[1],
          suggestion |-> "Contactez le support pour ajouter le support de cet etat"]
    ELSE TypeError

CalculationError(detail, calculation_data) ==
    [kind |-> "CalculationError", status_code |-> 500, error_code |-> "CALCULATION_ERROR",
     message |-> detail, calculation_data |-> calculation_data,
     suggestion |-> "Veuillez verifier les donnees d'entree"]

\* str(e): the message of the exception
str(e) == e.message

(***************************************************************************)
(* app/tax.py                                                              *)
(***************************************************************************)
\* enum State, in declaration order
State == <<"UT", "NV", "TX", "AL", "CA">>

list_states == [i \in 1..Len(State) |-> State[i]]

is_valid_state(state) == \E i \in 1..Len(State) : State[i] = state

TaxRate(rate, description, enabled) ==
    [rate |-> rate, description |-> description, enabled |-> enabled]

\* the rate table with the rates of Nevada and Texas exchanged
_initialize_tax_rates_swapped ==
    [s \in {"UT", "NV", "TX", "AL", "CA"} |->
        CASE s = "UT" -> TaxRate(685, "Utah Sales Tax", TRUE)
          [] s = "NV" -> TaxRate(625, "Nevada Sales Tax", TRUE)
          [] s = "TX" -> TaxRate(800, "Texas Sales Tax", TRUE)
          [] s = "AL" -> TaxRate(400, "Alabama Sales Tax", TRUE)
          [] s = "CA" -> TaxRate(825, "California Sales Tax", TRUE)]

\* the table built by TaxCalculator.__init__; rates in hundredths of a percent
_initialize_tax_rates ==
    [s \in {"UT", "NV", "TX", "AL", "CA"} |->
        CASE s = "UT" -> TaxRate(685, "Utah Sales Tax", TRUE)
          [] s = "NV" -> TaxRate(800, "Nevada Sales Tax", TRUE)
          [] s = "TX" -> TaxRate(625, "Texas Sales Tax", TRUE)
          [] s = "AL" -> TaxRate(400, "Alabama Sales Tax", TRUE)
          [] s = "CA" -> TaxRate(825, "California Sales Tax", TRUE)]

\* validate_state(state) on the table rates: the State member, or the
\* exception raised
validate_state(state, rates) ==
    IF ~is_valid_state(state)
    THEN InvalidStateError(state, list_states)
    ELSE IF state \notin DOMAIN rates
    THEN StateNotSupportedError(<<state>>)
    ELSE IF ~rates[state].enabled
    THEN StateNotSupportedError(<<state, "Le calcul de taxe pour l'etat est temporairement desactive">>)
    ELSE [kind |-> "State", value |-> state]

\* get_tax_rate(state): dict.get, None when the table has no entry
None == [kind |-> "None"]

get_tax_rate(state, rates) == IF state \in DOMAIN rates THEN rates[state] ELSE None

\* the trace with the final line built before the tax line, and naming the
\* base amount as its sum
calculation_details_final_before_tax(amount, state, rate, tax_amount, final_amount) ==
    << [step |-> 1, label |-> "Montant de base", amount |-> amount],
       [step |-> 2, label |-> "Taux de taxe", state |-> state, rate |-> rate],
       [step |-> 3, label |-> "Montant final", amount |-> amount, tax_amount |-> tax_amount, final_amount |-> amount],
       [step |-> 4, label |-> "Calcul de la taxe", amount |-> amount, rate |-> rate, tax_amount |-> tax_amount] >>

\* the calculation trace of calculate_tax: what each of the four lines names
calculation_details(amount, state, rate, tax_amount, final_amount) ==
    << [step |-> 1, label |-> "Montant de base", amount |-> amount],
       [step |-> 2, label |-> "Taux de taxe", state |-> state, rate |-> rate],
       [step |-> 3, label |-> "Calcul de la taxe", amount |-> amount, rate |-> rate, tax_amount |-> tax_amount],
       [step |-> 4, label |-> "Montant final", amount |-> amount, tax_amount |-> tax_amount, final_amount |-> final_amount] >>

\* the body of the try block of calculate_tax once the state is validated
\* and the amount is known not to be negative
TaxResults(amount, state, rates) ==
    { [kind |-> "dict",
       original_amount |-> a,
       state |-> state,
       tax_rate |-> rates[state].rate,
       tax_amount |-> t,
       final_amount |-> f,
       tax_description |-> <<"Taxe de vente", state, rates[state].rate>>,
       calculation_details |-> calculation_details(a, state, rates[state].rate, t, f)] :
      <<a, t, f>> \in
        UNION { UNION { { <<a2, t2, f2>> : f2 \in Round(a2 + t2, 1) } :
                        t2 \in RoundMulDiv(a2, rates[state].rate, 10000) } :
                a2 \in {amount.c + x : x \in Round(amount.m, 10)} } }

\* calculate_tax testing the amount before the state
calculate_tax_amount_first(amount, state, rates) ==
    LET v == validate_state(state, rates)
    IN  IF DecLtZero(amount)
        THEN {CalculationError(str(ValueError("Le montant ne peut pas etre negatif")),
                               [amount |-> amount, state |-> state])}
        ELSE IF v.kind = "State"
        THEN TaxResults(amount, state, rates)
        ELSE IF isinstance(v, "InvalidStateError") \/ isinstance(v, "StateNotSupportedError")
        THEN {v}
        ELSE {CalculationError("Erreur inattendue lors du calcul de la taxe",
                               [amount |-> amount, state |-> state, error |-> str(v)])}

\* calculate_tax rounding the amount before it tests its sign
calculate_tax_rounds_first(amount, state, rates) ==
    LET v == validate_state(state, rates)
    IN  IF v.kind = "State"
        THEN UNION { IF a < 0
                     THEN {CalculationError(str(ValueError("Le montant ne peut pas etre negatif")),
                                            [amount |-> amount, state |-> state])}
                     ELSE TaxResults(Dec(a, 0), state, rates) :
                     a \in {amount.c + x : x \in Round(amount.m, 10)} }
        ELSE IF isinstance(v, "InvalidStateError") \/ isinstance(v, "StateNotSupportedError")
        THEN {v}
        ELSE {CalculationError("Erreur inattendue lors du calcul de la taxe",
                               [amount |-> amount, state |-> state, error |-> str(v)])}

\* calculate_tax(amount, state): the set of results the call can have, each
\* the returned dict or the exception that leaves the method
calculate_tax(amount, state, rates) ==
    LET v == validate_state(state, rates)
    IN  IF v.kind = "State"
        THEN IF DecLtZero(amount)
             THEN {CalculationError(str(ValueError("Le montant ne peut pas etre negatif")),
                                    [amount |-> amount, state |-> state])}
             ELSE IF get_tax_rate(v.value, rates) = None
             THEN {StateNotSupportedError(<<state>>)}
             ELSE TaxResults(amount, state, rates)
        ELSE IF isinstance(v, "ValueError")
        THEN {CalculationError(str(v), [amount |-> amount, state |-> state])}
        ELSE IF isinstance(v, "InvalidStateError") \/ isinstance(v, "StateNotSupportedError")
        THEN {v}
        ELSE {CalculationError("Erreur inattendue lors du calcul de la taxe",
                               [amount |-> amount, state |-> state, error |-> str(v)])}

(***************************************************************************)
(* app/discount.py                                                         *)
(***************************************************************************)
DiscountRule(min_amount, discount_percentage, description) ==
    [min_amount |-> min_amount, discount_percentage |-> discount_percentage,
     description |-> description]

\* the rule list built by DiscountCalculator.__init__; min_amount in cents
DiscountCalculator_init ==
    << DiscountRule(10000, 5, "5% de remise pour les achats de plus de 100"),
       DiscountRule(50000, 10, "10% de remise pour les achats de plus de 500"),
       DiscountRule(100000, 15, "15% de remise pour les achats de plus de 1000"),
       DiscountRule(500000, 20, "20% de remise pour les achats de plus de 5000") >>

\* the rule filter with an exclusive threshold (> for >=)
applicable_rules_strict(total_amount, rules) ==
    SelectSeq(rules, LAMBDA rule : total_amount > rule.min_amount)

\* the list comprehension of get_applicable_discount
applicable_rules(total_amount, rules) ==
    SelectSeq(rules, LAMBDA rule : total_amount >= rule.min_amount)

\* min for max: the first element of the least key
max_by_percentage_least(seq) ==
    seq[CHOOSE i \in 1..Len(seq) :
            /\ \A j \in 1..Len(seq) : seq[j].discount_percentage >= seq[i].discount_percentage
            /\ \A j \in 1..(i - 1) : seq[j].discount_percentage > seq[i].discount_percentage]

\* max(seq, key = discount_percentage): the first element of the greatest key
max_by_percentage(seq) ==
    seq[CHOOSE i \in 1..Len(seq) :
            /\ \A j \in 1..Len(seq) : seq[j].discount_percentage <= seq[i].discount_percentage
            /\ \A j \in 1..(i - 1) : seq[j].discount_percentage < seq[i].discount_percentage]

get_applicable_discount(total_amount, rules) ==
    LET applicable == applicable_rules(total_amount, rules)
    IN  IF Len(applicable) > 0 THEN max_by_percentage(applicable) ELSE None

\* calculate_discount(total_amount), total_amount >= 0 in cents: the set of
\* dicts the call can return.  discount_amount and final_amount are rounded
\* separately from total * pct/100 and total - total * pct/100
calculate_discount(total_amount, rules) ==
    LET discount_rule == get_applicable_discount(total_amount, rules)
    IN  IF discount_rule = None
        THEN { [original_amount |-> total_amount,
                discount_percentage |-> 0,
                discount_amount |-> 0,
                final_amount |-> total_amount,
                discount_description |-> "Aucune remise applicable"] }
        ELSE { [original_amount |-> total_amount,
                discount_percentage |-> discount_rule.discount_percentage,
                discount_amount |-> d,
                final_amount |-> f,
                discount_description |-> discount_rule.description] :
               <<d, f>> \in RoundMulDiv(total_amount, discount_rule.discount_percentage, 100)
                            \X RoundMulDiv(total_amount, 100 - discount_rule.discount_percentage, 100) }

(***************************************************************************)
(* app/price_calculator.py                                                 *)
(***************************************************************************)
MAX_QUANTITY == 10000
MAX_UNIT_PRICE == 1000000
MAX_TOTAL == 10000000

\* quantity * unit_price > MAX_TOTAL for 1 <= quantity and 0 <= unit_price,
\* decided without forming the product: with W + R/10 = quantity * m / 10,
\* quantity * c + W + R/10 > limit  iff  quantity * c >= limit - W + [R = 0]
TotalExceeds(quantity, unit_price) ==
    LET limit == MAX_TOTAL * 100
        W == (quantity * unit_price.m) \div 10
        R == (quantity * unit_price.m) % 10
        K == limit - W + (IF R > 0 THEN 0 ELSE 1)
    IN  unit_price.c >= (K + quantity - 1) \div quantity

\* validate_inputs refusing the greatest quantity (>= for >)
validate_inputs_limit_excluded(quantity, unit_price) ==
    IF quantity <= 0
    THEN ValueError("La quantite doit etre un nombre positif")
    ELSE IF DecLeqZero(unit_price)
    THEN ValueError("Le prix unitaire doit etre un nombre positif")
    ELSE IF quantity >= MAX_QUANTITY
    THEN ValueError("La quantite ne peut pas depasser 10000")
    ELSE IF DecGt(unit_price, MAX_UNIT_PRICE * 100)
    THEN ValueError("Le prix unitaire ne peut pas depasser 1000000")
    ELSE IF TotalExceeds(quantity, unit_price)
    THEN ValueError("Le montant total ne peut pas depasser 10 millions")
    ELSE None

\* validate_inputs testing the upper limit of the quantity before the sign
\* of the unit price
validate_inputs_quantity_rules_first(quantity, unit_price) ==
    IF quantity <= 0
    THEN ValueError("La quantite doit etre un nombre positif")
    ELSE IF quantity > MAX_QUANTITY
    THEN ValueError("La quantite ne peut pas depasser 10000")
    ELSE IF DecLeqZero(unit_price)
    THEN ValueError("Le prix unitaire doit etre un nombre positif")
    ELSE IF DecGt(unit_price, MAX_UNIT_PRICE * 100)
    THEN ValueError("Le prix unitaire ne peut pas depasser 1000000")
    ELSE IF TotalExceeds(quantity, unit_price)
    THEN ValueError("Le montant total ne peut pas depasser 10 millions")
    ELSE None

\* validate_inputs(quantity, unit_price): None, or the ValueError raised
validate_inputs(quantity, unit_price) ==
    IF quantity <= 0
    THEN ValueError("La quantite doit etre un nombre positif")
    ELSE IF DecLeqZero(unit_price)
    THEN ValueError("Le prix unitaire doit etre un nombre positif")
    ELSE IF quantity > MAX_QUANTITY
    THEN ValueError("La quantite ne peut pas depasser 10000")
    ELSE IF DecGt(unit_price, MAX_UNIT_PRICE * 100)
    THEN ValueError("Le prix unitaire ne peut pas depasser 1000000")
    ELSE IF TotalExceeds(quantity, unit_price)
    THEN ValueError("Le montant total ne peut pas depasser 10 millions")
    ELSE None

PriceBreakdown(subtotal, discount_info, tax_info) ==
    [kind |-> "PriceBreakdown",
     subtotal |-> subtotal,
     discount_percentage |-> discount_info.discount_percentage,
     discount_amount |-> discount_info.discount_amount,
     price_after_discount |-> discount_info.final_amount,
     tax_rate |-> tax_info.tax_rate,
     tax_amount |-> tax_info.tax_amount,
     final_price |-> tax_info.final_amount,
     tax_description |-> tax_info.tax_description,
     calculation_steps |-> tax_info.calculation_details]

\* the except clauses letting every exception but ValueError through as it is
except_final_price_reraise(e, quantity, unit_price, state) ==
    IF isinstance(e, "ValueError")
    THEN ValueError(str(e))
    ELSE e

\* the except clauses of calculate_final_price applied to an exception e
\* raised inside its try block
except_final_price(e, quantity, unit_price, state) ==
    IF isinstance(e, "ValueError")
    THEN ValueError(str(e))
    ELSE CalculationError(str(e), [quantity |-> quantity, unit_price |-> unit_price, state |-> state])

\* the subtotal cut to the cent instead of rounded
subtotal_of_truncated(quantity, unit_price) ==
    {quantity * unit_price.c + (quantity * unit_price.m) \div 10}

\* round(quantity * unit_price, 2) for validated inputs, in cents
subtotal_of(quantity, unit_price) ==
    {quantity * unit_price.c + x : x \in Round(quantity * unit_price.m, 10)}

\* calculate_final_price with validate_state called ahead of validate_inputs
run_final_price_state_first(quantity, unit_price, state, rules, rates) ==
    LET s == validate_state(state, rates)
        v == validate_inputs(quantity, unit_price)
    IN  IF s.kind # "State"
        THEN {[outcome |-> except_final_price(s, quantity, unit_price, state),
               invoked |-> <<"validate_state">>]}
        ELSE IF v # None
        THEN {[outcome |-> except_final_price(v, quantity, unit_price, state),
               invoked |-> <<"validate_state">>]}
        ELSE UNION { UNION { { [outcome |->
                                  IF tax_info.kind = "dict"
                                  THEN PriceBreakdown(subtotal, discount_info, tax_info)
                                  ELSE except_final_price(tax_info, quantity, unit_price, state),
                                invoked |-> <<"validate_state", "calculate_discount", "calculate_tax">>] :
                               tax_info \in calculate_tax(Dec(discount_info.final_amount, 0), state, rates) } :
                             discount_info \in calculate_discount(subtotal, rules) } :
                     subtotal \in subtotal_of(quantity, unit_price) }

\* calculate_final_price taxing the subtotal instead of the discounted amount
run_final_price_tax_on_subtotal(quantity, unit_price, state, rules, rates) ==
    LET v == validate_inputs(quantity, unit_price)
    IN  IF v # None
        THEN {[outcome |-> except_final_price(v, quantity, unit_price, state),
               invoked |-> << >>]}
        ELSE UNION { UNION { { [outcome |->
                                  IF tax_info.kind = "dict"
                                  THEN PriceBreakdown(subtotal, discount_info, tax_info)
                                  ELSE except_final_price(tax_info, quantity, unit_price, state),
                                invoked |-> <<"calculate_discount", "calculate_tax">>] :
                               tax_info \in calculate_tax(Dec(subtotal, 0), state, rates) } :
                             discount_info \in calculate_discount(subtotal, rules) } :
                     subtotal \in subtotal_of(quantity, unit_price) }

\* the body of calculate_final_price: the runs the call can have, each with
\* its outcome (a PriceBreakdown or the exception that leaves the method)
\* and the engine methods invoked on the way, in order
run_final_price(quantity, unit_price, state, rules, rates) ==
    LET v == validate_inputs(quantity, unit_price)
    IN  IF v # None
        THEN {[outcome |-> except_final_price(v, quantity, unit_price, state),
               invoked |-> << >>]}
        ELSE UNION { UNION { { [outcome |->
                                  IF tax_info.kind = "dict"
                                  THEN PriceBreakdown(subtotal, discount_info, tax_info)
                                  ELSE except_final_price(tax_info, quantity, unit_price, state),
                                invoked |-> <<"calculate_discount", "calculate_tax">>] :
                               tax_info \in calculate_tax(Dec(discount_info.final_amount, 0), state, rates) } :
                             discount_info \in calculate_discount(subtotal, rules) } :
                     subtotal \in subtotal_of(quantity, unit_price) }

\* calculate_final_price(quantity, unit_price, state): the set of results
\* the call can have, each a PriceBreakdown or the exception that leaves it
calculate_final_price(quantity, unit_price, state, rules, rates) ==
    {r.outcome : r \in run_final_price(quantity, unit_price, state, rules, rates)}

(***************************************************************************)
(* app/models.py                                                           *)
(***************************************************************************)
\* abs(x) > 0.01 on floats, x given in tenths of a cent: decided by the
\* decimal value unless that is 0.01 exactly, where the float difference
\* falls either side of the float 0.01
exceeds_tolerance(x) ==
    LET abs == IF x < 0 THEN -x ELSE x
    IN  IF abs > 10 THEN {TRUE}
        ELSE IF abs < 10 THEN {FALSE}
        ELSE BOOLEAN

\* ProductOutput.validate_calculations on the fields of a product output:
\* None when the model is returned, or the ValueError raised.  The gap
\* total_price - quantity * unit_price is formed from quantity * c so that
\* no intermediate exceeds the product in cents
validate_calculations(quantity, unit_price, total_price, discount_amount, tax_amount, final_price) ==
    LET total_gap == 10 * (total_price - quantity * unit_price.c) - quantity * unit_price.m
        expected_final == total_price - discount_amount + tax_amount
    IN  UNION { IF t
                THEN {ValueError("Le prix total brut ne correspond pas a (quantite x prix unitaire)")}
                ELSE { IF f
                       THEN ValueError("Le prix final ne correspond pas au calcul attendu")
                       ELSE None :
                       f \in exceeds_tolerance(10 * (final_price - expected_final)) } :
                t \in exceeds_tolerance(total_gap) }

(***************************************************************************)
(* Inputs of the calls.                                                    *)
(***************************************************************************)
\* the integers within Spread of a limit
Near(limit) == (limit - Spread)..(limit + Spread)

\* the five known codes, an unknown code and a known code in lower case
StateCodes == {"UT", "NV", "TX", "AL", "CA", "ZZ", "ca"}

Quantities == Near(0) \cup Near(MAX_QUANTITY) \cup {2, 5}

\* unit prices: around 0 and MAX_UNIT_PRICE to the cent and to the tenth of
\* a cent, and 0.005, 4.999, 20.02, 100.00, 1000.00, 1000.001
UnitPrices ==
    {Dec(c, 0) : c \in Near(0) \cup Near(MAX_UNIT_PRICE * 100)}
    \cup {Dec(MAX_UNIT_PRICE * 100, 1), Dec(0, 5), Dec(499, 9), Dec(2002, 0),
          Dec(10000, 0), Dec(100000, 0), Dec(100000, 1)}

\* amounts given to calculate_tax: around 0, -0.001, 0.005, 10.00, 95.00, 1234.565
Amounts ==
    {Dec(c, 0) : c \in Near(0)}
    \cup {Dec(-1, 9), Dec(0, 5), Dec(1000, 0), Dec(9500, 0), Dec(123456, 5)}

\* totals given to the discount calculator: around every min_amount of the
\* rule list, and 0, 100.10, 100.30
Totals ==
    UNION {Near(discount_rules[i].min_amount) \cap Nat : i \in 1..Len(discount_rules)}
    \cup {0, 10010, 10030}

(***************************************************************************)
(* The calls.  `call` is the call in progress with its arguments and       *)
(* `outcome` what it returned or raised; the caller takes the outcome      *)
(* (Return) before the next call is made.  Calls are synchronous and made  *)
(* one at a time.                                                          *)
(***************************************************************************)
NoCall == [op |-> "none"]

\* no call has been kept
NoPrev == [call |-> NoCall, outcome |-> None]

ValidateState ==
    /\ call = NoCall
    /\ invoked' = << >>
    /\ \E state \in StateCodes :
        /\ call' = [op |-> "validate_state", state |-> state]
        /\ outcome' = validate_state(state, tax_rates)
    /\ UNCHANGED <<tax_rates, discount_rules, fp, prev>>

CalculateTax ==
    /\ call = NoCall
    /\ invoked' = << >>
    /\ \E amount \in Amounts, state \in StateCodes :
        /\ call' = [op |-> "calculate_tax", amount |-> amount, state |-> state]
        /\ outcome' \in calculate_tax(amount, state, tax_rates)
    /\ UNCHANGED <<tax_rates, discount_rules, fp, prev>>

GetApplicableDiscount ==
    /\ call = NoCall
    /\ invoked' = << >>
    /\ \E total_amount \in Totals :
        /\ call' = [op |-> "get_applicable_discount", total_amount |-> total_amount]
        /\ outcome' = get_applicable_discount(total_amount, discount_rules)
    /\ UNCHANGED <<tax_rates, discount_rules, fp, prev>>

CalculateDiscount ==
    /\ call = NoCall
    /\ invoked' = << >>
    /\ \E total_amount \in Totals :
        /\ call' = [op |-> "calculate_discount", total_amount |-> total_amount]
        /\ outcome' \in calculate_discount(total_amount, discount_rules)
    /\ UNCHANGED <<tax_rates, discount_rules, fp, prev>>

CalculateFinalPrice ==
    /\ call = NoCall
    /\ \E quantity \in Quantities, unit_price \in UnitPrices, state \in StateCodes :
        /\ call' = [op |-> "calculate_final_price", quantity |-> quantity,
                    unit_price |-> unit_price, state |-> state]
        /\ \E r \in run_final_price(quantity, unit_price, state,
                                    discount_rules, tax_rates) :
              /\ outcome' = r.outcome
              /\ invoked' = r.invoked
    /\ UNCHANGED <<tax_rates, discount_rules, fp, prev>>

\* the caller has the result; the calculator is ready for the next call
Return ==
    /\ call # NoCall
    /\ call' = NoCall
    /\ outcome' = None
    /\ invoked' = << >>
    /\ UNCHANGED <<tax_rates, discount_rules, fp, prev>>

(***************************************************************************)
(* Specifications.                                                         *)
(***************************************************************************)
\* PriceCalculator(): the calculators are built, nothing has been called
Init ==
    /\ tax_rates = _initialize_tax_rates
    /\ discount_rules = DiscountCalculator_init
    /\ call = NoCall
    /\ outcome = None
    /\ invoked = << >>
    /\ fp = {}
    /\ prev = NoPrev

Next ==
    \/ ValidateState
    \/ CalculateTax
    \/ GetApplicableDiscount
    \/ CalculateDiscount
    \/ CalculateFinalPrice
    \/ Return

\* the deployed configuration
Spec == Init /\ [][Next]_vars

\* the rate tables in which every known code has its configured entry, has
\* it with enabled = False, or has none
TaxTables ==
    UNION { { [s \in present |-> [_initialize_tax_rates[s] EXCEPT !.enabled = s \notin disabled]] :
              disabled \in SUBSET present } :
            present \in SUBSET DOMAIN _initialize_tax_rates }

\* rule lists: the configured one, one whose percentages decrease with
\* min_amount, and one in which two rules share the highest percentage
RuleTables ==
    { DiscountCalculator_init,
      << DiscountRule(10000, 20, "a"), DiscountRule(50000, 10, "b"),
         DiscountRule(100000, 15, "c"), DiscountRule(500000, 5, "d") >>,
      << DiscountRule(10000, 10, "a"), DiscountRule(50000, 15, "b"),
         DiscountRule(100000, 15, "c") >> }

\* a calculator whose tax_rates and discount_rules attributes hold another
\* configuration
InitConfig ==
    /\ tax_rates \in TaxTables
    /\ discount_rules \in RuleTables
    /\ call = NoCall
    /\ outcome = None
    /\ invoked = << >>
    /\ fp = {}
    /\ prev = NoPrev

SpecConfig == InitConfig /\ [][Next]_vars

(***************************************************************************)
(* Repeated calls of calculate_final_price on one PriceCalculator.         *)
(***************************************************************************)
\* the roundings of an exact half cent that show in a PriceBreakdown o
\* returned for quantity and unit_price: the operation, its operands and
\* the cent it gave
Ties(quantity, unit_price, o) ==
    IF o.kind # "PriceBreakdown" THEN {}
    ELSE
      (IF Cardinality(subtotal_of(quantity, unit_price)) = 2
       THEN {[stage |-> "subtotal", operands |-> <<quantity, unit_price.c, unit_price.m>>,
              result |-> o.subtotal]}
       ELSE {})
      \cup
      (IF Cardinality(RoundMulDiv(o.subtotal, o.discount_percentage, 100)) = 2
       THEN {[stage |-> "discount_amount", operands |-> <<o.subtotal, o.discount_percentage>>,
              result |-> o.discount_amount],
             [stage |-> "final_amount", operands |-> <<o.subtotal, o.discount_percentage>>,
              result |-> o.price_after_discount]}
       ELSE {})
      \cup
      (IF Cardinality(RoundMulDiv(o.price_after_discount, o.tax_rate, 10000)) = 2
       THEN {[stage |-> "tax_amount", operands |-> <<o.price_after_discount, o.tax_rate>>,
              result |-> o.tax_amount]}
       ELSE {})

\* no operation gave two results on the same operands
Consistent(ties) ==
    \A x, y \in ties :
        (x.stage = y.stage /\ x.operands = y.operands) => x.result = y.result

\* the inputs of the repeated calls: every kind of outcome, and the exact
\* half cents 1 x 0.005, 5 x 0.005 and 5% of 5 x 20.02 = 100.10
RepeatQuantities == {0, 1, 5}

RepeatUnitPrices == {Dec(0, 5), Dec(199, 0), Dec(2002, 0)}

RepeatStateCodes == {"CA", "UT", "ZZ"}

\* calculate_final_price taking the rule it applied off the rule list
FinalPriceCall_consumes_rule ==
    /\ call = NoCall
    /\ \E quantity \in RepeatQuantities, unit_price \in RepeatUnitPrices,
          state \in RepeatStateCodes :
        \E r \in run_final_price(quantity, unit_price, state,
                                 discount_rules, tax_rates) :
            /\ Consistent(fp \cup Ties(quantity, unit_price, r.outcome))
            /\ fp' = fp \cup Ties(quantity, unit_price, r.outcome)
            /\ call' = [op |-> "calculate_final_price", quantity |-> quantity,
                        unit_price |-> unit_price, state |-> state]
            /\ outcome' = r.outcome
            /\ invoked' = r.invoked
            /\ discount_rules' =
                 IF r.outcome.kind = "PriceBreakdown" /\ r.outcome.discount_percentage > 0
                 THEN SelectSeq(discount_rules,
                                LAMBDA rule : rule.discount_percentage # r.outcome.discount_percentage)
                 ELSE discount_rules
    /\ UNCHANGED <<tax_rates, prev>>

\* calculate_final_price where each half cent is rounded the way the same
\* operation rounded it before
FinalPriceCall ==
    /\ call = NoCall
    /\ \E quantity \in RepeatQuantities, unit_price \in RepeatUnitPrices,
          state \in RepeatStateCodes :
        \E r \in run_final_price(quantity, unit_price, state,
                                 discount_rules, tax_rates) :
            /\ Consistent(fp \cup Ties(quantity, unit_price, r.outcome))
            /\ fp' = fp \cup Ties(quantity, unit_price, r.outcome)
            /\ call' = [op |-> "calculate_final_price", quantity |-> quantity,
                        unit_price |-> unit_price, state |-> state]
            /\ outcome' = r.outcome
            /\ invoked' = r.invoked
    /\ UNCHANGED <<tax_rates, discount_rules, prev>>

\* the caller takes the result and keeps it to compare a later call with
ReturnKept ==
    /\ call # NoCall
    /\ prev' = [call |-> call, outcome |-> outcome]
    /\ call' = NoCall
    /\ outcome' = None
    /\ invoked' = << >>
    /\ UNCHANGED <<tax_rates, discount_rules, fp>>

NextRepeat ==
    \/ FinalPriceCall
    \/ ReturnKept
    \/ Return

SpecRepeat == Init /\ [][NextRepeat]_vars

(***************************************************************************)
(* Vocabulary of the properties.                                           *)
(***************************************************************************)
\* a call of op has returned or raised and its outcome is there
Returned(op) == call.op = op

\* quantity * unit_price > limit (limit in cents, quantity >= 1), from the
\* quotient k and remainder r of limit by quantity:
\* quantity * (c + m/10) > quantity * k + r
ProductGt(quantity, unit_price, limit) ==
    LET k == limit \div quantity
        r == limit % quantity
    IN  IF unit_price.c - k >= 2 THEN TRUE
        ELSE IF unit_price.c - k <= -1 THEN FALSE
        ELSE 10 * quantity * (unit_price.c - k) + quantity * unit_price.m > 10 * r

\* the inputs the specification accepts: 1 <= quantity <= 10000,
\* 0 < unit_price <= 1000000 and quantity * unit_price <= 10000000
InLimits(quantity, unit_price) ==
    /\ quantity >= 1
    /\ quantity <= 10000
    /\ unit_price.c >= 0
    /\ unit_price.c + unit_price.m > 0
    /\ unit_price.c <= 100000000
    /\ (unit_price.c = 100000000 => unit_price.m = 0)
    /\ ~ProductGt(quantity, unit_price, 1000000000)

\* the code is one of the five known jurisdiction codes
KnownCode(state) == state \in {"UT", "NV", "TX", "AL", "CA"}

\* the known code has an entry in the rate table and the entry is enabled
Enabled(state) == state \in DOMAIN tax_rates /\ tax_rates[state].enabled

\* x is n/d rounded to an integer (n >= 0, d > 0): no integer is nearer
IsRounded(x, n, d) ==
    /\ x \in (n \div d)..(n \div d + 1)
    /\ 2 * (x * d - n) <= d
    /\ 2 * (n - x * d) <= d

\* x is a * n / d rounded to an integer, for 0 <= a and 0 <= n <= d * 100
IsRoundedProduct(x, a, n, d) ==
    LET rest == x - (a \div d) * n
    IN  /\ rest \in 0..(n + 1)
        /\ IsRounded(rest, (a % d) * n, d)

(***************************************************************************)
(* C1  A calculate_final_price call with valid quantity and unit price and *)
(* a jurisdiction code that validate_state refuses raises that             *)
(* jurisdiction error itself (InvalidStateError, StateNotSupportedError),  *)
(* never a CalculationError wrapping it.                                   *)
(***************************************************************************)
C1_JurisdictionErrorPassesThrough ==
    ( /\ Returned("calculate_final_price")
      /\ InLimits(call.quantity, call.unit_price)
      /\ ~(KnownCode(call.state) /\ Enabled(call.state)) )
    => /\ outcome.kind \in {"InvalidStateError", "StateNotSupportedError"}
       /\ outcome.kind # "CalculationError"
       /\ ~KnownCode(call.state)
            => /\ outcome.kind = "InvalidStateError"
               /\ outcome.error_code = "INVALID_STATE"
               /\ outcome.provided_state = call.state

(***************************************************************************)
(* C2  calculate_final_price raises ValueError exactly when the inputs are *)
(* outside the limits (quantity <= 0, unit_price <= 0, quantity > 10000,   *)
(* unit_price > 1000000, quantity * unit_price > 10000000); every          *)
(* PriceBreakdown comes from inputs within the limits and has              *)
(* subtotal <= 10000000.                                                   *)
(***************************************************************************)
C2_ValidationRejects ==
    Returned("calculate_final_price")
    => /\ (outcome.kind = "ValueError") <=> ~InLimits(call.quantity, call.unit_price)
       /\ outcome.kind = "PriceBreakdown"
            => /\ InLimits(call.quantity, call.unit_price)
               /\ outcome.subtotal <= 1000000000

\* the limits themselves are accepted: 10000 x 1000.00 = 10000000.00
C2_Witness ==
    /\ Returned("calculate_final_price")
    /\ call.quantity = 10000
    /\ call.unit_price = Dec(100000, 0)
    /\ outcome.kind = "PriceBreakdown"
    /\ outcome.subtotal = 1000000000

(***************************************************************************)
(* C3  For inputs within the limits and a valid jurisdiction a breakdown   *)
(* is returned and its subtotal is quantity * unit_price rounded to the    *)
(* cent, unit prices with three decimals included.                         *)
(***************************************************************************)
C3_SubtotalRounded ==
    ( /\ Returned("calculate_final_price")
      /\ InLimits(call.quantity, call.unit_price)
      /\ KnownCode(call.state) )
    => /\ outcome.kind = "PriceBreakdown"
       /\ IsRounded(outcome.subtotal - call.quantity * call.unit_price.c,
                    call.quantity * call.unit_price.m, 10)

\* 2 x 4.999 = 9.998 gives subtotal 10.00
C3_Witness ==
    /\ Returned("calculate_final_price")
    /\ call.quantity = 2
    /\ call.unit_price = Dec(499, 9)
    /\ outcome.kind = "PriceBreakdown"
    /\ outcome.subtotal = 1000

(***************************************************************************)
(* C4  get_applicable_discount(s) returns a rule of the list with          *)
(* min_amount <= s such that no rule with min_amount <= s has a strictly   *)
(* higher percentage (a rule is eligible from s = min_amount on); when no  *)
(* rule has min_amount <= s it returns None, and calculate_discount then   *)
(* reports percentage 0, amount 0 and final_amount = s.                    *)
(***************************************************************************)
Eligible(i, s) == discount_rules[i].min_amount <= s

C4_BestEligibleTier ==
    /\ Returned("get_applicable_discount")
        => IF \E i \in 1..Len(discount_rules) : Eligible(i, call.total_amount)
           THEN /\ \E i \in 1..Len(discount_rules) :
                      Eligible(i, call.total_amount) /\ outcome = discount_rules[i]
                /\ \A j \in 1..Len(discount_rules) :
                      Eligible(j, call.total_amount)
                      => discount_rules[j].discount_percentage <= outcome.discount_percentage
           ELSE outcome = None
    /\ ( /\ Returned("calculate_discount")
         /\ \A i \in 1..Len(discount_rules) : ~Eligible(i, call.total_amount) )
        => /\ outcome.discount_percentage = 0
           /\ outcome.discount_amount = 0
           /\ outcome.final_amount = call.total_amount

\* a subtotal equal to the lowest min_amount gets that rule
C4_Witness ==
    /\ Returned("get_applicable_discount")
    /\ call.total_amount = discount_rules[1].min_amount
    /\ outcome = discount_rules[1]

(***************************************************************************)
(* C5  When a rule of percentage pct applies to s, calculate_discount(s)   *)
(* returns discount_amount = s * pct / 100 rounded to the cent and         *)
(* final_amount = s - discount_amount, so that in every breakdown          *)
(* discount_amount + price_after_discount = subtotal.                      *)
(***************************************************************************)
C5_FinalIsSubtotalMinusDiscount ==
    /\ ( /\ Returned("calculate_discount")
         /\ \E i \in 1..Len(discount_rules) : Eligible(i, call.total_amount) )
        => /\ IsRoundedProduct(outcome.discount_amount, call.total_amount,
                               outcome.discount_percentage, 100)
           /\ outcome.final_amount = call.total_amount - outcome.discount_amount
    /\ ( /\ Returned("calculate_final_price")
         /\ outcome.kind = "PriceBreakdown" )
        => outcome.discount_amount + outcome.price_after_discount = outcome.subtotal

(***************************************************************************)
(* C6  For an amount >= 0 and a code among UT, NV, TX, AL, CA,             *)
(* calculate_tax uses the rate 6.85, 8.00, 6.25, 4.00, 8.25, rounds the    *)
(* amount to the cent (a), and returns tax_amount = a * rate / 100 rounded *)
(* to the cent and final_amount = a + tax_amount; in a breakdown the same  *)
(* holds of price_after_discount, tax_amount and final_price.              *)
(***************************************************************************)
RateOf(state) ==
    CASE state = "UT" -> 685
      [] state = "NV" -> 800
      [] state = "TX" -> 625
      [] state = "AL" -> 400
      [] state = "CA" -> 825

C6_TaxComputation ==
    /\ ( /\ Returned("calculate_tax")
         /\ ~DecLtZero(call.amount)
         /\ KnownCode(call.state) )
        => /\ outcome.kind = "dict"
           /\ outcome.tax_rate = RateOf(call.state)
           /\ IsRounded(outcome.original_amount - call.amount.c, call.amount.m, 10)
           /\ IsRoundedProduct(outcome.tax_amount, outcome.original_amount,
                               RateOf(call.state), 10000)
           /\ outcome.final_amount = outcome.original_amount + outcome.tax_amount
    /\ ( /\ Returned("calculate_final_price")
         /\ outcome.kind = "PriceBreakdown" )
        => /\ outcome.tax_rate = RateOf(call.state)
           /\ IsRoundedProduct(outcome.tax_amount, outcome.price_after_discount,
                               RateOf(call.state), 10000)
           /\ outcome.final_price = outcome.price_after_discount + outcome.tax_amount

\* 1234.565 in Texas: the amount is first rounded to the cent
C6_Witness ==
    /\ Returned("calculate_tax")
    /\ call.amount = Dec(123456, 5)
    /\ call.state = "TX"
    /\ outcome.kind = "dict"
    /\ outcome.tax_rate = 625
    /\ outcome.original_amount \in {123456, 123457}

(***************************************************************************)
(* C7  For a code outside UT, NV, TX, AL, CA, validate_state and           *)
(* calculate_tax (whatever the amount, negative included) raise            *)
(* InvalidStateError carrying the code and the list UT, NV, TX, AL, CA;    *)
(* for a known code with an enabled rate validate_state succeeds.          *)
(***************************************************************************)
C7_UnknownCodeRefused ==
    /\ ( /\ Returned("validate_state") \/ Returned("calculate_tax")
         /\ ~KnownCode(call.state) )
        => /\ outcome.kind = "InvalidStateError"
           /\ outcome.error_code = "INVALID_STATE"
           /\ outcome.provided_state = call.state
           /\ outcome.valid_states = <<"UT", "NV", "TX", "AL", "CA">>
    /\ ( /\ Returned("validate_state")
         /\ KnownCode(call.state)
         /\ Enabled(call.state) )
        => outcome = [kind |-> "State", value |-> call.state]

\* a negative amount with an unknown code: the code is refused first
C7_Witness ==
    /\ Returned("calculate_tax")
    /\ DecLtZero(call.amount)
    /\ call.state = "ZZ"
    /\ outcome.kind = "InvalidStateError"

(***************************************************************************)
(* C8  When the entry of a known code is absent from the rate table, or    *)
(* present with enabled = False, validate_state and calculate_tax raise    *)
(* StateNotSupportedError (STATE_NOT_SUPPORTED) carrying the code and a    *)
(* suggestion, and no other kind of error.                                 *)
(***************************************************************************)
C8_UnsupportedCodeRefused ==
    ( /\ Returned("validate_state") \/ Returned("calculate_tax")
      /\ KnownCode(call.state)
      /\ ~Enabled(call.state) )
    => /\ outcome.kind = "StateNotSupportedError"
       /\ outcome.error_code = "STATE_NOT_SUPPORTED"
       /\ outcome.state = call.state
       /\ outcome.suggestion # ""

(***************************************************************************)
(* C9  For an amount < 0 and a known, enabled code, calculate_tax raises   *)
(* CalculationError (CALCULATION_ERROR) whose calculation_data carries the *)
(* amount given and the code; no tax result is returned.                   *)
(***************************************************************************)
C9_NegativeAmountRefused ==
    ( /\ Returned("calculate_tax")
      /\ DecLtZero(call.amount)
      /\ KnownCode(call.state)
      /\ Enabled(call.state) )
    => /\ outcome.kind = "CalculationError"
       /\ outcome.error_code = "CALCULATION_ERROR"
       /\ outcome.calculation_data = [amount |-> call.amount, state |-> call.state]

\* -0.001 in California
C9_Witness ==
    /\ Returned("calculate_tax")
    /\ call.amount = Dec(-1, 9)
    /\ call.state = "CA"
    /\ Enabled("CA")
    /\ outcome.kind = "CalculationError"
    /\ outcome.calculation_data.amount = Dec(-1, 9)

(***************************************************************************)
(* C10  A calculate_final_price call ends in a PriceBreakdown, a           *)
(* ValueError, an InvalidStateError, a StateNotSupportedError or a         *)
(* CalculationError and in nothing else; a CalculationError carries the    *)
(* quantity, unit price and state of the call; a fault of the tax step     *)
(* that is neither a ValueError nor a jurisdiction error reaches the       *)
(* caller as such a CalculationError.                                      *)
(***************************************************************************)
C10_OutcomeKinds ==
    Returned("calculate_final_price")
    => /\ outcome.kind \in {"PriceBreakdown", "ValueError", "InvalidStateError",
                            "StateNotSupportedError", "CalculationError"}
       /\ outcome.kind = "CalculationError"
            => outcome.calculation_data =
                 [quantity |-> call.quantity, unit_price |-> call.unit_price,
                  state |-> call.state]
       /\ ( /\ InLimits(call.quantity, call.unit_price)
            /\ validate_state(call.state, tax_rates).kind
                 \notin {"State", "ValueError", "InvalidStateError", "StateNotSupportedError"} )
            => outcome.kind = "CalculationError"

\* a disabled entry: the fault of the tax step comes out as CalculationError
C10_Witness ==
    /\ Returned("calculate_final_price")
    /\ InLimits(call.quantity, call.unit_price)
    /\ KnownCode(call.state)
    /\ call.state \in DOMAIN tax_rates
    /\ ~tax_rates[call.state].enabled
    /\ outcome.kind = "CalculationError"
    /\ outcome.calculation_data.quantity = call.quantity

(***************************************************************************)
(* C11  calculate_final_price keeps no hidden state: whatever calls were   *)
(* made before, a call with the quantity, unit price and state of an       *)
(* earlier call has the outcome of that call (the same breakdown field by  *)
(* field, or the same failure), and the discount rule list and the tax     *)
(* rate table are at every moment the ones the constructors built.         *)
(***************************************************************************)
C11_Deterministic ==
    /\ tax_rates = _initialize_tax_rates
    /\ discount_rules = DiscountCalculator_init
    /\ ( /\ Returned("calculate_final_price")
         /\ prev.call = call )
        => outcome = prev.outcome

\* 5 x 20.02 = 100.10 a second time, after the half cents of its discount
\* were rounded a first time
C11_Witness ==
    /\ Returned("calculate_final_price")
    /\ prev.call = call
    /\ call.quantity = 5
    /\ call.unit_price = Dec(2002, 0)
    /\ outcome.kind = "PriceBreakdown"
    /\ outcome = prev.outcome
    /\ Cardinality(fp) >= 2

(***************************************************************************)
(* C12  Input validation is the first step of calculate_final_price and    *)
(* nothing runs after it fails: inputs outside a numeric limit give        *)
(* ValueError whatever the jurisdiction code (unknown, absent or disabled  *)
(* included), never a jurisdiction error or a CalculationError, and        *)
(* neither calculate_discount nor calculate_tax is invoked.                *)
(***************************************************************************)
C12_ValidationFirst ==
    ( /\ Returned("calculate_final_price")
      /\ ~InLimits(call.quantity, call.unit_price) )
    => /\ outcome.kind = "ValueError"
       /\ invoked = << >>

\* quantity 0 with a code that validate_state refuses
C12_Witness ==
    /\ Returned("calculate_final_price")
    /\ call.quantity = 0
    /\ ~(KnownCode(call.state) /\ Enabled(call.state))
    /\ outcome.kind = "ValueError"
    /\ invoked = << >>

(***************************************************************************)
(* C13  calculate_final_price(1, 100.00, "CA") returns subtotal 100.00,    *)
(* discount 5% = 5.00, price_after_discount 95.00, tax 8.25% = 7.84 and    *)
(* final_price 102.84.                                                     *)
(***************************************************************************)
C13_ScenarioOne ==
    ( /\ Returned("calculate_final_price")
      /\ call.quantity = 1
      /\ call.unit_price = Dec(10000, 0)
      /\ call.state = "CA" )
    => /\ outcome.kind = "PriceBreakdown"
       /\ outcome.subtotal = 10000
       /\ outcome.discount_percentage = 5
       /\ outcome.discount_amount = 500
       /\ outcome.price_after_discount = 9500
       /\ outcome.tax_rate = 825
       /\ outcome.tax_amount = 784
       /\ outcome.final_price = 10284

\* the call of the scenario has returned its breakdown
C13_Witness ==
    /\ Returned("calculate_final_price")
    /\ call.quantity = 1
    /\ call.unit_price = Dec(10000, 0)
    /\ call.state = "CA"
    /\ outcome.kind = "PriceBreakdown"
    /\ outcome.final_price = 10284
    /\ invoked = <<"calculate_discount", "calculate_tax">>

(***************************************************************************)
(* C14  With the rule list of DiscountCalculator.__init__, the rule        *)
(* get_applicable_discount(s) returns is the eligible rule of the highest  *)
(* min_amount, and the percentage applied to s is 0 below 100, 5 from 100, *)
(* 10 from 500, 15 from 1000 and 20 from 5000, in calculate_discount and   *)
(* in the breakdown of calculate_final_price.                              *)
(***************************************************************************)
TierPercentage(s) ==
    IF s < 10000 THEN 0
    ELSE IF s < 50000 THEN 5
    ELSE IF s < 100000 THEN 10
    ELSE IF s < 500000 THEN 15
    ELSE 20

C14_TierTable ==
    /\ discount_rules = DiscountCalculator_init
    /\ Returned("get_applicable_discount")
        => IF \E i \in 1..Len(discount_rules) : Eligible(i, call.total_amount)
           THEN /\ \E i \in 1..Len(discount_rules) :
                      /\ Eligible(i, call.total_amount)
                      /\ outcome = discount_rules[i]
                      /\ \A j \in 1..Len(discount_rules) :
                            Eligible(j, call.total_amount)
                            => discount_rules[j].min_amount <= discount_rules[i].min_amount
                /\ outcome.discount_percentage = TierPercentage(call.total_amount)
           ELSE outcome = None /\ TierPercentage(call.total_amount) = 0
    /\ Returned("calculate_discount")
        => outcome.discount_percentage = TierPercentage(call.total_amount)
    /\ ( /\ Returned("calculate_final_price")
         /\ outcome.kind = "PriceBreakdown" )
        => outcome.discount_percentage = TierPercentage(outcome.subtotal)

\* a subtotal of 500.00, eligible for two rules, gets the 10% rule
C14_Witness ==
    /\ Returned("get_applicable_discount")
    /\ call.total_amount = 50000
    /\ Eligible(1, call.total_amount)
    /\ outcome = discount_rules[2]
    /\ outcome.discount_percentage = 10

(***************************************************************************)
(* C15  Every dict returned by calculate_tax, and every breakdown returned *)
(* by calculate_final_price, carries a trace of exactly four lines in the  *)
(* order base amount, rate, tax, final sum, and the amount, rate, tax and  *)
(* final values those lines name are the returned original_amount          *)
(* (price_after_discount), tax_rate, tax_amount and final_amount           *)
(* (final_price).                                                          *)
(***************************************************************************)
TraceOf(steps, amount, rate, tax_amount, final_amount) ==
    /\ Len(steps) = 4
    /\ \A i \in 1..4 : steps[i].step = i
    /\ <<steps[1].label, steps[2].label, steps[3].label, steps[4].label>>
         = <<"Montant de base", "Taux de taxe", "Calcul de la taxe", "Montant final">>
    /\ steps[1].amount = amount
    /\ steps[2].rate = rate
    /\ steps[3].amount = amount
    /\ steps[3].rate = rate
    /\ steps[3].tax_amount = tax_amount
    /\ steps[4].amount = amount
    /\ steps[4].tax_amount = tax_amount
    /\ steps[4].final_amount = final_amount

C15_TraceOfFourSteps ==
    /\ ( /\ Returned("calculate_tax")
         /\ outcome.kind = "dict" )
        => /\ TraceOf(outcome.calculation_details, outcome.original_amount,
                      outcome.tax_rate, outcome.tax_amount, outcome.final_amount)
           /\ outcome.calculation_details[2].state = call.state
    /\ ( /\ Returned("calculate_final_price")
         /\ outcome.kind = "PriceBreakdown" )
        => /\ TraceOf(outcome.calculation_steps, outcome.price_after_discount,
                      outcome.tax_rate, outcome.tax_amount, outcome.final_price)
           /\ outcome.calculation_steps[2].state = call.state

\* a breakdown whose discount and tax are not zero has been returned with
\* its trace
C15_Witness ==
    /\ Returned("calculate_final_price")
    /\ outcome.kind = "PriceBreakdown"
    /\ outcome.discount_amount > 0
    /\ outcome.tax_amount > 0
    /\ Len(outcome.calculation_steps) = 4
    /\ outcome.calculation_steps[4].final_amount = outcome.final_price

(***************************************************************************)
(* C16  The message of the ValueError calculate_final_price raises is that *)
(* of the first violated rule in the order quantity <= 0, unit_price <= 0, *)
(* quantity > 10000, unit_price > 1000000, quantity * unit_price >         *)
(* 10000000: a quantity or unit price that is not positive gives a         *)
(* "positif" message whatever other limit is exceeded, and the "10         *)
(* millions" message is given only when quantity and unit price are each   *)
(* within their own limits.                                                *)
(***************************************************************************)
RuleMessages ==
    << "La quantite doit etre un nombre positif",
       "Le prix unitaire doit etre un nombre positif",
       "La quantite ne peut pas depasser 10000",
       "Le prix unitaire ne peut pas depasser 1000000",
       "Le montant total ne peut pas depasser 10 millions" >>

\* the rules, numbered in the stated order, that the inputs violate
ViolatedRules(quantity, unit_price) ==
    {i \in 1..5 :
        \/ i = 1 /\ quantity <= 0
        \/ i = 2 /\ (unit_price.c < 0 \/ (unit_price.c = 0 /\ unit_price.m = 0))
        \/ i = 3 /\ quantity > 10000
        \/ i = 4 /\ ( \/ unit_price.c > 100000000
                      \/ (unit_price.c = 100000000 /\ unit_price.m > 0) )
        \/ i = 5 /\ quantity >= 1 /\ unit_price.c >= 0
                 /\ ProductGt(quantity, unit_price, 1000000000)}

FirstViolated(quantity, unit_price) ==
    CHOOSE i \in ViolatedRules(quantity, unit_price) :
        \A j \in ViolatedRules(quantity, unit_price) : i <= j

C16_FirstViolatedRule ==
    ( /\ Returned("calculate_final_price")
      /\ outcome.kind = "ValueError" )
    => /\ ViolatedRules(call.quantity, call.unit_price) # {}
       /\ outcome.message = RuleMessages[FirstViolated(call.quantity, call.unit_price)]
       /\ (1 \in ViolatedRules(call.quantity, call.unit_price)
             => outcome.message = RuleMessages[1])
       /\ ( /\ 1 \notin ViolatedRules(call.quantity, call.unit_price)
            /\ 2 \in ViolatedRules(call.quantity, call.unit_price) )
             => outcome.message = RuleMessages[2]
       /\ outcome.message = RuleMessages[5]
             => ViolatedRules(call.quantity, call.unit_price) = {5}

\* a quantity above 10000 with a unit price that is not positive is refused
\* for the unit price
C16_Witness ==
    /\ Returned("calculate_final_price")
    /\ call.quantity > 10000
    /\ ViolatedRules(call.quantity, call.unit_price) = {2, 3}
    /\ outcome.kind = "ValueError"
    /\ outcome.message = RuleMessages[2]

(***************************************************************************)
(* C17  Every breakdown calculate_final_price returns passes the output    *)
(* consistency rule of the response schema (validate_calculations):        *)
(* final_price is within 0.01 of subtotal - discount_amount + tax_amount,  *)
(* for every valid quantity, unit price and jurisdiction.                  *)
(***************************************************************************)
C17_BreakdownPassesOutputRule ==
    ( /\ Returned("calculate_final_price")
      /\ outcome.kind = "PriceBreakdown" )
    => validate_calculations(call.quantity, call.unit_price, outcome.subtotal,
                             outcome.discount_amount, outcome.tax_amount,
                             outcome.final_price) = {None}

====
